---- MODULE Spec2Model ----
(***************************************************************************)
(* Model of the library catalogue: src/books.py (the Book entity and its   *)
(* dictionary form) and src/library.py (the file-backed store operations). *)
(*                                                                         *)
(* A Python str is a tuple of one-character strings, an int is an Int, and *)
(* an Optional[...] argument is None or Some(v).  The library file is one  *)
(* of                                                                      *)
(*   [kind |-> "missing"]      no file at the path (FileNotFoundError)     *)
(*   [kind |-> "undecodable"]  bytes that are not UTF-8 (e.g. a write cut  *)
(*                             inside a multi-byte character)              *)
(*   [kind |-> "notjson"]      text json.load rejects (also the empty file)*)
(*   [kind |-> "nonarray"]     valid JSON that is not an array, e.g. 42    *)
(*   [kind |-> "array", recs |-> <<d1, ..., dn>>]                          *)
(*                             a JSON array of objects, each a function    *)
(*                             from its keys to strings                    *)
(* A call yields [exc |-> "none", ...] with the value it returns and       *)
(* [exc |-> E] when it raises E.                                           *)
(***************************************************************************)
EXTENDS Integers, Sequences, FiniteSets, TLC

VARIABLES file, pre, call, ret

vars == <<file, pre, call, ret>>

\* Bounds of the model: add_book is only called while the library holds fewer
\* than MaxBooks books and the id it would assign is at most MaxId.
MaxBooks == 3
MaxId == 4

---------------------------------------------------------------------------
(* Python values *)

None == [some |-> FALSE]
Some(v) == [some |-> TRUE, val |-> v]

\* What a call yields: a value under the name of its type, or an exception
Return(v) == [exc |-> "none", val |-> v]
ReturnBook(b) == [exc |-> "none", book |-> b]
ReturnBool(x) == [exc |-> "none", flag |-> x]
ReturnNone == [exc |-> "none"]
Raise(e) == [exc |-> e]

\* "в наличии" and "выдана" in the source
STATUS_AVAILABLE == "available"
STATUS_CHECKED_OUT == "checked_out"
VALID_STATUSES == {STATUS_AVAILABLE, STATUS_CHECKED_OUT}

UpperCase == <<"A","B","C","D","E","F","G","H","I","J","K","L","M",
               "N","O","P","Q","R","S","T","U","V","W","X","Y","Z">>
LowerCase == <<"a","b","c","d","e","f","g","h","i","j","k","l","m",
               "n","o","p","q","r","s","t","u","v","w","x","y","z">>

\* str.lower() on one character
LowerChar(c) ==
    IF \E i \in DOMAIN UpperCase : UpperCase[i] = c
    THEN LowerCase[CHOOSE i \in DOMAIN UpperCase : UpperCase[i] = c]
    ELSE c

\* str.lower()
lower(s) == [i \in DOMAIN s |-> LowerChar(s[i])]

\* `a in b` on two str
IsSubstring(a, b) ==
    \E i \in 0..Len(b) : i + Len(a) <= Len(b) /\ SubSeq(b, i + 1, i + Len(a)) = a

DigitChars == <<"0","1","2","3","4","5","6","7","8","9">>

IsDigit(c) == \E i \in DOMAIN DigitChars : DigitChars[i] = c
DigitValue(c) == (CHOOSE i \in DOMAIN DigitChars : DigitChars[i] = c) - 1

RECURSIVE NatToStr(_)
NatToStr(n) ==
    IF n < 10 THEN <<DigitChars[n + 1]>>
    ELSE NatToStr(n \div 10) \o <<DigitChars[(n % 10) + 1]>>

\* str(n) for an int n
IntToStrNoSign(n) == IF n < 0 THEN NatToStr(0 - n) ELSE NatToStr(n)
IntToStr(n) == IF n < 0 THEN <<"-">> \o NatToStr(0 - n) ELSE NatToStr(n)

RECURSIVE Strip(_)
Strip(s) ==
    IF s = <<>> THEN s
    ELSE IF Head(s) = " " THEN Strip(Tail(s))
    ELSE IF s[Len(s)] = " " THEN Strip(SubSeq(s, 1, Len(s) - 1))
    ELSE s

RECURSIVE DigitsValue(_)
DigitsValue(s) ==
    IF s = <<>> THEN 0
    ELSE 10 * DigitsValue(SubSeq(s, 1, Len(s) - 1)) + DigitValue(s[Len(s)])

AllDigits(s) == s # <<>> /\ \A i \in DOMAIN s : IsDigit(s[i])

\* The digits of a numeric string after its blanks and its sign
Unsigned(s) ==
    LET t == Strip(s)
    IN  IF t # <<>> /\ Head(t) \in {"+", "-"} THEN Tail(t) ELSE t

\* int(s) for a str s: blanks around, an optional sign, decimal digits.
\* CanParseInt(s) is false where int(s) raises ValueError.
CanParseInt(s) == AllDigits(Unsigned(s))
ParseInt(s) ==
    LET t == Strip(s)
    IN  IF Head(t) = "-" THEN 0 - DigitsValue(Unsigned(s))
        ELSE DigitsValue(Unsigned(s))

---------------------------------------------------------------------------
(* src/books.py *)

\* The default of Book.__init__'s status parameter
StatusMisspelt == "availble"
DefaultStatus == STATUS_AVAILABLE

Book(id, title, author, year, status) ==
    [id |-> id, title |-> title, author |-> author, year |-> year,
     status |-> status]

to_dict(b) ==
    [id |-> IntToStr(b.id), title |-> b.title, author |-> b.author,
     year |-> IntToStr(b.year), status |-> b.status]

\* The keyword arguments are evaluated in the order written.
from_dict(d) ==
    IF "id" \notin DOMAIN d THEN Raise("KeyError")
    ELSE IF ~CanParseInt(d.id) THEN Raise("ValueError")
    ELSE IF "title" \notin DOMAIN d THEN Raise("KeyError")
    ELSE IF "author" \notin DOMAIN d THEN Raise("KeyError")
    ELSE IF "year" \notin DOMAIN d THEN Raise("KeyError")
    ELSE IF ~CanParseInt(d.year) THEN Raise("ValueError")
    ELSE IF "status" \notin DOMAIN d THEN Raise("KeyError")
    ELSE Return(Book(ParseInt(d.id), d.title, d.author, ParseInt(d.year),
                     d.status))

---------------------------------------------------------------------------
(* src/library.py: the store *)

ArrayFile(recs) == [kind |-> "array", recs |-> recs]

\* [Book.from_dict(book) for book in json.load(file)]: the first element
\* whose from_dict raises ends the comprehension with that exception.
FromDicts(recs) ==
    LET parsed == [i \in DOMAIN recs |-> from_dict(recs[i])]
        bad == {i \in DOMAIN recs : parsed[i].exc # "none"}
    IN  IF bad = {} THEN Return([i \in DOMAIN recs |-> parsed[i].val])
        ELSE parsed[CHOOSE i \in bad : \A j \in bad : i <= j]

\* Only FileNotFoundError and json.JSONDecodeError are caught.
load_library(f) ==
    CASE f.kind = "missing" -> Return(<<>>)
      [] f.kind = "notjson" -> Return(<<>>)
      [] f.kind = "undecodable" -> Raise("UnicodeDecodeError")
      [] f.kind = "nonarray" -> Raise("TypeError")
      [] f.kind = "array" -> FromDicts(f.recs)

\* What save_library leaves at the path
save_library(books) == ArrayFile([i \in DOMAIN books |-> to_dict(books[i])])

Ids(books) == {books[i].id : i \in DOMAIN books}

Max(S) == CHOOSE m \in S : \A x \in S : x <= m

\* new_id = max((book.id for book in books), default=0) + 1
NewIdByCount(books) == Len(books) + 1
NewId(books) == (IF Ids(books) = {} THEN 0 ELSE Max(Ids(books))) + 1

\* books.append(new_book)
InsertFirst(books, b) == <<b>> \o books
AppendBook(books, b) == Append(books, b)

\* A store operation yields the file it leaves and what the call yields.
Outcome(f, r) == [file |-> f, ret |-> r]

add_book(f, title, author, year) ==
    LET l == load_library(f)
    IN  IF l.exc # "none" THEN Outcome(f, l)
        ELSE LET new_book == Book(NewId(l.val), title, author, year,
                                  DefaultStatus)
             IN  Outcome(save_library(AppendBook(l.val, new_book)),
                         ReturnBook(new_book))

\* [book for book in books if book.id != book_id]
DropFirstWithId(books, book_id) ==
    IF \E i \in DOMAIN books : books[i].id = book_id
    THEN LET k == CHOOSE i \in DOMAIN books :
                    /\ books[i].id = book_id
                    /\ \A j \in 1..(i - 1) : books[j].id # book_id
         IN  SubSeq(books, 1, k - 1) \o SubSeq(books, k + 1, Len(books))
    ELSE books
WithoutId(books, book_id) == SelectSeq(books, LAMBDA b : b.id # book_id)

remove_book(f, book_id) ==
    LET l == load_library(f)
    IN  IF l.exc # "none" THEN Outcome(f, l)
        ELSE LET filtered_books == WithoutId(l.val, book_id)
             IN  IF Len(filtered_books) = Len(l.val)
                 THEN Outcome(f, ReturnBool(FALSE))
                 ELSE Outcome(save_library(filtered_books), ReturnBool(TRUE))

\* `if title:` and `if year:` test the argument's truth value.
TruthyStr(o) == o.some /\ o.val # <<>>
TruthyInt(o) == o.some /\ o.val # 0

search_books(f, title, author, year) ==
    LET l == load_library(f)
    IN  IF l.exc # "none" THEN Outcome(f, l)
        ELSE LET r1 == IF TruthyStr(title)
                       THEN SelectSeq(l.val, LAMBDA b :
                                IsSubstring(lower(title.val), lower(b.title)))
                       ELSE l.val
                 r2 == IF TruthyStr(author)
                       THEN SelectSeq(r1, LAMBDA b :
                                IsSubstring(lower(author.val), lower(b.author)))
                       ELSE r1
                 r3 == IF TruthyInt(year)
                       THEN SelectSeq(r2, LAMBDA b : b.year = year.val)
                       ELSE r2
             IN  Outcome(f, Return(r3))

list_books(f) == Outcome(f, load_library(f))

\* `if status not in [...]: raise ValueError(...)`
AnyStatusAccepted(status) == TRUE
StatusAccepted(status) == status \in VALID_STATUSES
StatusRejected(status) == ~StatusAccepted(status)

\* The loop returns at the first book with the id.
SetStatusAll(books, book_id, status) ==
    [i \in DOMAIN books |->
        IF books[i].id = book_id THEN [books[i] EXCEPT !.status = status]
        ELSE books[i]]
SetStatusFirst(books, book_id, status) ==
    LET k == CHOOSE i \in DOMAIN books :
                /\ books[i].id = book_id
                /\ \A j \in 1..(i - 1) : books[j].id # book_id
    IN  [books EXCEPT ![k].status = status]

update_book_status(f, book_id, status) ==
    IF StatusRejected(status) THEN Outcome(f, Raise("ValueError"))
    ELSE LET l == load_library(f)
         IN  IF l.exc # "none" THEN Outcome(f, l)
             ELSE IF book_id \in Ids(l.val)
                  THEN Outcome(save_library(SetStatusFirst(l.val, book_id, status)),
                               ReturnBool(TRUE))
                  ELSE Outcome(f, ReturnBool(FALSE))

\* The `finally` of the entry point: list_books, then save_library.
exit_save(f) ==
    LET l == load_library(f)
    IN  IF l.exc # "none" THEN Outcome(f, l)
        ELSE Outcome(save_library(l.val), ReturnNone)

---------------------------------------------------------------------------
(* The inputs the model draws from *)

War == <<"W","a","r">>
Art == <<"A","r","t">>
Tol == <<"T","o","l">>
Lee == <<"L","e","e">>

\* (title, author, year) of the books added
NewBooks == { <<War, Tol, 1869>>, <<Art, Lee, 0>> }

\* (title, author, year) of the searches; "" as entered at an empty prompt
SearchArgs ==
    { <<None, None, None>>,
      <<Some(<<"A","R">>), None, None>>,
      <<Some(<<"w">>), None, None>>,
      <<None, Some(<<"t","o","l">>), None>>,
      <<Some(<<"A","R">>), Some(<<"t","o","l">>), None>>,
      <<None, None, Some(0)>>,
      <<Some(<<"A","R">>), Some(<<"T","O">>), Some(1869)>>,
      <<Some(<<>>), Some(<<"e","E">>), Some(0)>> }

IdArgs == 0..MaxId
\* (book_id, status) of the status updates; "lost" is no status of the list
UpdateArgs == ({0, 1, 2} \X VALID_STATUSES) \cup ({0, 1} \X {"lost"})

Rec(id, title, author, year, status) ==
    [id |-> id, title |-> title, author |-> author, year |-> year,
     status |-> status]

FreshFiles ==
    { [kind |-> "missing"], [kind |-> "notjson"], ArrayFile(<<>>) }

\* Files the program can find at its path: written by an earlier run, by
\* hand, or damaged.
InitFiles ==
    FreshFiles \cup
    { [kind |-> "undecodable"],
      [kind |-> "nonarray"],
      \* two records of one id, written "+1" and "1 ", the second of a
      \* status no call would store
      ArrayFile(<< Rec(<<"+","1">>, War, Tol, <<"1","8","6","9">>, STATUS_AVAILABLE),
                   Rec(<<"1"," ">>, Art, Tol, <<"0","0">>, "lost") >>),
      \* negative numbers
      ArrayFile(<< Rec(<<"-","2">>, Art, Lee, <<"-","5">>, STATUS_CHECKED_OUT) >>),
      \* a record without "status"
      ArrayFile(<< Rec(<<"1">>, War, Tol, <<"1","8","6","9">>, STATUS_AVAILABLE),
                   [id |-> <<"2">>, title |-> Art, author |-> Lee,
                    year |-> <<"0">>] >>),
      \* a record whose id is no number
      ArrayFile(<< Rec(<<"x","1">>, War, Tol, <<"1","8","6","9">>, STATUS_AVAILABLE) >>) }

---------------------------------------------------------------------------
(* The state machine: one action per store operation *)

\* The bounds: the library is kept small.
CanAdd(f) ==
    LET l == load_library(f)
    IN  l.exc = "none" => (Len(l.val) < MaxBooks /\ NewId(l.val) <= MaxId)

Add ==
    \E nb \in NewBooks :
        LET out == add_book(file, nb[1], nb[2], nb[3])
        IN  /\ CanAdd(file)
            /\ pre' = file
            /\ file' = out.file
            /\ call' = [op |-> "add", title |-> nb[1], author |-> nb[2],
                        year |-> nb[3]]
            /\ ret' = out.ret

Remove ==
    \E id \in IdArgs :
        LET out == remove_book(file, id)
        IN  /\ pre' = file
            /\ file' = out.file
            /\ call' = [op |-> "remove", book_id |-> id]
            /\ ret' = out.ret

Search ==
    \E q \in SearchArgs :
        LET out == search_books(file, q[1], q[2], q[3])
        IN  /\ pre' = file
            /\ file' = out.file
            /\ call' = [op |-> "search", title |-> q[1], author |-> q[2],
                        year |-> q[3]]
            /\ ret' = out.ret

List ==
    LET out == list_books(file)
    IN  /\ pre' = file
        /\ file' = out.file
        /\ call' = [op |-> "list"]
        /\ ret' = out.ret

UpdateStatus ==
    \E u \in UpdateArgs :
        LET out == update_book_status(file, u[1], u[2])
        IN  /\ pre' = file
            /\ file' = out.file
            /\ call' = [op |-> "update_status", book_id |-> u[1],
                        status |-> u[2]]
            /\ ret' = out.ret

Exit ==
    LET out == exit_save(file)
    IN  /\ pre' = file
        /\ file' = out.file
        /\ call' = [op |-> "exit"]
        /\ ret' = out.ret

Start(files) ==
    /\ file \in files
    /\ pre = file
    /\ call = [op |-> "start"]
    /\ ret = ReturnNone

Init == Start(InitFiles)
InitFresh == Start(FreshFiles)

Next == Add \/ Remove \/ Search \/ List \/ UpdateStatus \/ Exit

\* Any file at the start
Spec == Init /\ [][Next]_vars
\* A missing or empty library file at the start
SpecFresh == InitFresh /\ [][Next]_vars

---------------------------------------------------------------------------
(* The properties *)

\* The stored collection is what load_library reads from the file.
Readable(f) == load_library(f).exc = "none"
Stored(f) == load_library(f).val

Returned(v) == ret.exc = "none" /\ ret.val = v
ReturnedBool(x) == ret.exc = "none" /\ ret.flag = x

\* The place of the first book with the id
FirstWithId(books, id) ==
    CHOOSE k \in DOMAIN books :
        books[k].id = id /\ \A j \in 1..(k - 1) : books[j].id # id

CountWithId(books, id) == Cardinality({i \in DOMAIN books : books[i].id = id})

\* C1: from a missing or empty library file, after any sequence of add,
\* remove and update_status calls the ids of the stored records are pairwise
\* distinct.
C1_IdsDistinct ==
    /\ Readable(file)
    /\ \A i, j \in DOMAIN Stored(file) :
           i # j => Stored(file)[i].id # Stored(file)[j].id

\* An add after a removal, where the number of books plus one is an id in use
C1_AddAfterRemove ==
    /\ call.op = "add"
    /\ ret.exc = "none"
    /\ Len(Stored(pre)) + 1 \in Ids(Stored(pre))
    /\ Len(Stored(file)) = Len(Stored(pre)) + 1

\* C2: add returns a Book of the arguments whose id is the largest stored id
\* plus one, or 1 when nothing is stored, and the stored collection becomes
\* the previous one with exactly that Book appended at the end.
C2_AddAppendsNextId ==
    (call.op = "add" /\ Readable(pre)) =>
        /\ ret.exc = "none"
        /\ Stored(pre) = <<>> => ret.book.id = 1
        /\ Stored(pre) # <<>> =>
              /\ \E i \in DOMAIN Stored(pre) : ret.book.id = Stored(pre)[i].id + 1
              /\ \A i \in DOMAIN Stored(pre) : Stored(pre)[i].id < ret.book.id
        /\ ret.book.title = call.title
        /\ ret.book.author = call.author
        /\ ret.book.year = call.year
        /\ Readable(file)
        /\ Stored(file) = Append(Stored(pre), ret.book)

\* add on a library with ids {1, 3} has returned id 4
C2_OneThreeYieldsFour ==
    /\ call.op = "add"
    /\ Readable(pre)
    /\ Ids(Stored(pre)) = {1, 3}
    /\ ret.exc = "none"
    /\ ret.book.id = 4

\* A file that is missing, or is no JSON array at all
MissingOrCorrupt(f) ==
    f.kind \in {"missing", "notjson", "undecodable", "nonarray"}

\* C3: remove on a library with no record of the id (a missing or corrupt
\* file included) returns false and leaves the file as it was; on a library
\* with the id it returns true and the stored collection is the previous one
\* without the records of that id, the others in their order.
C3_RemoveContract ==
    call.op = "remove" =>
        /\ (MissingOrCorrupt(pre)
              \/ (Readable(pre) /\ call.book_id \notin Ids(Stored(pre)))) =>
                 (ReturnedBool(FALSE) /\ file = pre)
        /\ (Readable(pre) /\ call.book_id \in Ids(Stored(pre))) =>
              /\ ReturnedBool(TRUE)
              /\ Readable(file)
              /\ Stored(file) =
                    SelectSeq(Stored(pre), LAMBDA b : b.id # call.book_id)

\* C3 on the files load_library reads: the contract holds there.
RemoveContractWhereReadable ==
    (call.op = "remove" /\ Readable(pre)) =>
        /\ call.book_id \notin Ids(Stored(pre)) =>
              (ReturnedBool(FALSE) /\ file = pre)
        /\ call.book_id \in Ids(Stored(pre)) =>
              /\ ReturnedBool(TRUE)
              /\ Readable(file)
              /\ Stored(file) =
                    SelectSeq(Stored(pre), LAMBDA b : b.id # call.book_id)

\* remove never writes the file it could not read.
RemoveKeepsUnreadable ==
    (call.op = "remove" /\ ~Readable(pre)) => (file = pre /\ ret.exc # "none")

\* C4: update_status with a status outside the two-value list raises the
\* invalid-argument error (ValueError) and leaves the file as it was, for
\* every id and every file.
C4_InvalidStatusRejected ==
    (call.op = "update_status" /\ call.status \notin VALID_STATUSES) =>
        (ret.exc = "ValueError" /\ file = pre)

\* A status outside the list was given for an id that is stored
C4_InvalidStatusOnStoredId ==
    /\ call.op = "update_status"
    /\ call.status \notin VALID_STATUSES
    /\ Readable(pre)
    /\ call.book_id \in Ids(Stored(pre))
    /\ ret.exc = "ValueError"

\* C5: update_status with a status of the list: if a stored record has the
\* id, it returns true and the stored collection is the previous one except
\* that the first record with the id has the new status; if none has, it
\* returns false and the file is not written.
C5_UpdateFirstMatch ==
    (call.op = "update_status" /\ call.status \in VALID_STATUSES
        /\ Readable(pre)) =>
        IF call.book_id \in Ids(Stored(pre))
        THEN /\ ReturnedBool(TRUE)
             /\ Readable(file)
             /\ Len(Stored(file)) = Len(Stored(pre))
             /\ \A i \in DOMAIN Stored(pre) :
                   Stored(file)[i] =
                      IF i = FirstWithId(Stored(pre), call.book_id)
                      THEN [Stored(pre)[i] EXCEPT !.status = call.status]
                      ELSE Stored(pre)[i]
        ELSE ReturnedBool(FALSE) /\ file = pre

\* A status change of an id that two stored records share
C5_UpdateOfSharedId ==
    /\ call.op = "update_status"
    /\ ReturnedBool(TRUE)
    /\ Readable(pre)
    /\ CountWithId(Stored(pre), call.book_id) = 2
    /\ \A i \in DOMAIN Stored(pre) :
          Stored(pre)[i].id = call.book_id =>
             Stored(pre)[i].status # call.status

\* The filters of a search, each applied when its argument is provided
Matches(b, title, author, year) ==
    /\ title.some => IsSubstring(lower(title.val), lower(b.title))
    /\ author.some => IsSubstring(lower(author.val), lower(b.author))
    /\ year.some => b.year = year.val

\* C6: search returns exactly the stored records that satisfy every provided
\* filter (title and author as case-insensitive substrings, year exactly),
\* for every provided value, and does not write the file.
C6_SearchFilters ==
    (call.op = "search" /\ Readable(pre)) =>
        /\ file = pre
        /\ ret.exc = "none"
        /\ ret.val = SelectSeq(Stored(pre), LAMBDA b :
                        Matches(b, call.title, call.author, call.year))

\* C6 for the years other than 0: the filters hold as stated there.
SearchFiltersNonZeroYear ==
    (call.op = "search" /\ Readable(pre)
        /\ (call.year.some => call.year.val # 0)) =>
        /\ file = pre
        /\ ret.exc = "none"
        /\ ret.val = SelectSeq(Stored(pre), LAMBDA b :
                        Matches(b, call.title, call.author, call.year))

\* C7: load on a missing or corrupt file returns the empty sequence and
\* raises nothing (list_books is load_library).
C7_LoadTolerant ==
    (call.op = "list" /\ MissingOrCorrupt(pre)) => Returned(<<>>)

\* C7 for the files that are missing or that json.load rejects
LoadTolerantOfMissingAndNotJson ==
    (call.op = "list" /\ pre.kind \in {"missing", "notjson"}) => Returned(<<>>)

\* Books of every sign and digit count
SampleBooks ==
    { Book(i, War, Tol, y, s) :
        i \in {-10, -2, 0, 7, 10, 105}, y \in {-5, 0, 1869, 2000},
        s \in VALID_STATUSES }

\* C8: from_dict(to_dict(b)) has the fields of b, and the load-then-save of
\* the exit path leaves a file that loads to the collection loaded before.
C8_RoundTrip ==
    /\ \A b \in SampleBooks : from_dict(to_dict(b)) = Return(b)
    /\ Readable(file) =>
          \A i \in DOMAIN Stored(file) :
             from_dict(to_dict(Stored(file)[i])) = Return(Stored(file)[i])
    /\ (call.op = "exit" /\ Readable(pre)) =>
          (Readable(file) /\ Stored(file) = Stored(pre))

\* The exit path has rewritten a file of records whose numbers were not
\* written the way str() writes them
C8_RewrittenFile ==
    /\ call.op = "exit"
    /\ Readable(pre)
    /\ Stored(pre) # <<>>
    /\ pre.kind = "array"
    /\ file # pre

\* C9: from a missing or empty library file, after any sequence of add,
\* remove and update_status calls (rejected ones included) every stored
\* record has a status of the two-value list, and a newly added record has
\* the status available.
C9_StatusInEnum ==
    /\ Readable(file)
    /\ \A i \in DOMAIN Stored(file) : Stored(file)[i].status \in VALID_STATUSES
    /\ (call.op = "add" /\ ret.exc = "none") =>
          /\ ret.book.status = STATUS_AVAILABLE
          /\ Stored(file)[Len(Stored(file))].status = STATUS_AVAILABLE

\* A status outside the list was refused while a checked-out book is stored
C9_RejectedAfterCheckout ==
    /\ call.op = "update_status"
    /\ ret.exc = "ValueError"
    /\ \E i \in DOMAIN Stored(file) :
          /\ Stored(file)[i].status = STATUS_CHECKED_OUT
          /\ Stored(file)[i].id = call.book_id

\* The call just made, made again on the file it left
Again ==
    CASE call.op = "add" -> add_book(file, call.title, call.author, call.year)
      [] call.op = "remove" -> remove_book(file, call.book_id)
      [] call.op = "update_status" ->
            update_book_status(file, call.book_id, call.status)
      [] call.op = "exit" -> exit_save(file)
      [] OTHER -> Outcome(file, ret)

\* C10 as stated: each of add, remove, update_status and save, made twice
\* in a row with the same arguments, leaves the file as made once.
C10_AllIdempotent ==
    call.op \in {"add", "remove", "update_status", "exit"} => Again.file = file

\* C10 as amended: remove, update_status and save leave the file as made
\* once; add does not whenever it succeeds: the second call appends another
\* record.
C10_IdempotentExceptAdd ==
    /\ call.op \in {"remove", "update_status", "exit"} => Again.file = file
    /\ (call.op = "add" /\ ret.exc = "none") =>
          /\ Again.file # file
          /\ Readable(Again.file)
          /\ Len(Stored(Again.file)) = Len(Stored(file)) + 1

\* A removal that took two records of one id out
C10_RemovedSharedId ==
    /\ call.op = "remove"
    /\ ReturnedBool(TRUE)
    /\ CountWithId(Stored(pre), call.book_id) = 2

====
